---- MODULE Spec2Model ----
(***************************************************************************)
(* A model of backend/elastic.js: the Elastic wrapper around the           *)
(* elasticsearch client.  The wrapper's asynchronous methods are run by a  *)
(* small set of concurrent callers; every await is a suspension point at   *)
(* which other callers and the engine may take steps.  The engine (the     *)
(* external collaborator) is modelled by what the client calls ask of it:  *)
(* an index has a mapping, a primary store of documents and a searchable   *)
(* view that a refresh brings up to date.                                  *)
(***************************************************************************)
EXTENDS Naturals, Sequences, FiniteSets, TLC

VARIABLES
    idxMapping,   \* engine: index name -> its mapping, or Absent
    stored,       \* engine: index name -> (id -> document), the primary store
    visible,      \* engine: index name -> (id -> document), what a search sees
    subjects,     \* this.subjects of the Elastic instance
    pc,           \* caller -> the await it is suspended at, or "idle"
    arg,          \* caller -> the arguments of its current (or last) call
    parts,        \* caller -> the chunks of bulkIndexFromMap
    sent,         \* caller -> number of client.bulk requests issued by the call
    done,         \* caller -> number of those requests that have resolved
    value,        \* caller -> the value the promise chain currently carries
    ret,          \* caller -> outcome of its last completed call
    calls,        \* number of calls started so far
    rarg,         \* caller -> the arguments of its current (or last) read call
    got,          \* caller -> the map its last getMapFromIDs call returned
    searchOutput, \* caller -> what its last search call returned
    sendLog,      \* history: caller -> the batch numbers sent, in order
    failedEver,   \* history: caller -> ids the engine reported failed in the call
    clean,        \* history: caller -> no other caller wrote since its call began
    reqLog,       \* history: the (operation, refresh) of every bulk request sent
    firstSubjects, \* history: the set the first completed aggregation produced
    agg           \* history: aggregation queries sent, and how many were rejected

vars == <<idxMapping, stored, visible, subjects, pc, arg, parts, sent, done,
          value, ret, calls, rarg, got, searchOutput, sendLog, failedEver,
          clean, reqLog, firstSubjects, agg>>

readVars == <<rarg, got, searchOutput>>

engineVars == <<idxMapping, stored, visible>>
chainVars == <<parts, sent, done, value, sendLog, failedEver>>

----------------------------------------------------------------------------
(* Bounds of the model *)

MaxKeys == 201
MaxCalls == 1
MaxSmallCalls == 4

(* Program constants *)

ChunkSize == 100

Procs == {"p1", "p2"}

CLASS_INDEX == "classes"
IndexNames == {CLASS_INDEX}

Absent == "absent"
Dynamic == "dynamic"
Mappings == {"classMapping"}

----------------------------------------------------------------------------
(* Documents: a document is a function from field names to values. *)

DocA == [subject |-> "CS", name |-> "Fundamentals"]
DocB == [subject |-> "ee"]
PatchN == [name |-> "Renamed"]
Docs == {DocA, DocB}
IngestDocs == {DocA}
Patches == {PatchN}

NoDocs == <<>>

Min(a, b) == IF a < b THEN a ELSE b

\* A map with the ids 1..n, each carrying document d.
MapOf(n, d) == [i \in 1..n |-> d]

KeyCounts == {0, 1, ChunkSize, ChunkSize + 1, MaxKeys}
SmallKeyCounts == {1}

\* Object.keys(map): the ids in ascending order.
KeysOf(map) == [i \in 1..Cardinality(DOMAIN map) |-> i]

\* _.chunk(array, size)
Chunk(array, size) ==
    [k \in 1..((Len(array) + size - 1) \div size) |->
        SubSeq(array, (k - 1) * size + 1, Min(k * size, Len(array)))]

Range(s) == {s[i] : i \in DOMAIN s}

\* String.prototype.toLowerCase on the subject codes of the model.
ToLowerCase(s) ==
    CASE s = "CS" -> "cs"
      [] s = "EE" -> "ee"
      [] OTHER -> s

----------------------------------------------------------------------------
(* Values: a reference is null or a Set; a promise value is undefined, a   *)
(* bulk response or a Set of subjects.                                     *)

NullRef == [tag |-> "null", elems |-> {}]
SetRef(S) == [tag |-> "Set", elems |-> S]

\* JavaScript truthiness of this.subjects: null is falsy, every Set is truthy.
Truthy(ref) == ref.tag # "null"

Undefined == [kind |-> "undefined", failed |-> {}, elems |-> {}]
BulkResponse(F) == [kind |-> "bulk", failed |-> F, elems |-> {}]
SubjectsValue(ref) == [kind |-> "subjects", failed |-> {}, elems |-> ref.elems]

NoArg == [index |-> CLASS_INDEX, map |-> NoDocs, mapping |-> Absent]
\* The arguments of getMapFromIDs(indexName, ids) and of
\* search(query, termId, min, max), and what a caller holds before a read call
\* of its has returned.
ReadArg(index, ids, query, termId, min, max) ==
    [index |-> index, ids |-> ids, query |-> query, termId |-> termId,
     min |-> min, max |-> max]
NoRead == ReadArg(CLASS_INDEX, {}, <<>>, "", 0, 0)
NoOutput == [searchContent |-> <<>>, resultCount |-> 0]

NoRet == [op |-> "none", status |-> "none", value |-> Undefined, cached |-> FALSE]
Ret(op, status, v, cached) ==
    [op |-> op, status |-> status, value |-> v, cached |-> cached]

----------------------------------------------------------------------------
(* The engine, as the client calls use it. *)

Exists(ix) == idxMapping[ix] # Absent

\* The mapping of an index after a bulk request: a bulk write to a missing
\* index creates it with a dynamic mapping.
AutoCreate(m) == IF m = Absent THEN Dynamic ELSE m

\* A partial document merged into a stored one: the given fields are set,
\* the others are kept.
Merge(old, patch) ==
    [f \in DOMAIN old \cup DOMAIN patch |->
        IF f \in DOMAIN patch THEN patch[f] ELSE old[f]]

\* { update: { _id: id } }, { doc: source } with the document created when
\* it is missing.
IndexItemAsUpdate(docs, id, source) ==
    IF id \in DOMAIN docs THEN Merge(docs[id], source) ELSE source

\* { index: { _id: id } }, map[id]: the stored document becomes the source.
IndexItem(docs, id, source) == source

\* { index: { _id: id } }, map[id] in place of the partial update.
UpdateItemAsIndex(docs, id, patch) == patch

\* { update: { _id: id } }, { doc: map[id] }
UpdateItem(docs, id, patch) == Merge(docs[id], patch)

\* The store after the index operations of one bulk body, the ids of F
\* having failed.
ApplyIndex(docs, ids, map, F) ==
    [i \in DOMAIN docs \cup (ids \ F) |->
        IF i \in ids \ F THEN IndexItem(docs, i, map[i]) ELSE docs[i]]

\* The store after the update operations of one bulk body: an update of a
\* missing document fails for that document alone.
ApplyUpdate(docs, ids, map) ==
    [i \in DOMAIN docs |->
        IF i \in ids THEN UpdateItem(docs, i, map[i]) ELSE docs[i]]

\* The refresh parameter of the two bulk requests.
RefreshOfIndex == "wait_for"
RefreshOfUpdate == "false"

\* What searches see after a write: with refresh wait_for the response is
\* held back until a refresh has made the write searchable.
ViewAfter(refresh, newStored, oldVisible) ==
    IF refresh = "wait_for" THEN newStored ELSE oldVisible

\* The ids whose write the engine may report as failed.
FlakyIds == {1, ChunkSize + 1, MaxKeys}

\* buckets of the terms aggregation on class.subject.keyword, lowercased
\* into a Set.
SubjectBuckets(docs) ==
    {docs[i]["subject"] : i \in {j \in DOMAIN docs : "subject" \in DOMAIN docs[j]}}
LowercasedSet(buckets) == SetRef({ToLowerCase(b) : b \in buckets})

Dirty(p) == [q \in Procs |-> IF q = p THEN clean[q] ELSE FALSE]

\* The periodic refresh of the engine.
EngineRefresh ==
    /\ \E ix \in IndexNames : visible[ix] # stored[ix]
    /\ visible' = stored
    /\ UNCHANGED <<readVars, idxMapping, stored, subjects, pc, arg, parts, sent, done,
                   value, ret, calls, sendLog, failedEver, clean, reqLog,
                   firstSubjects, agg>>

----------------------------------------------------------------------------
(* bulkIndexFromMap *)

CallBulkIndex(p, ix, map, budget) ==
    /\ pc[p] = "idle"
    /\ calls < budget
    /\ calls' = calls + 1
    /\ pc' = [pc EXCEPT ![p] = "bulkIndex"]
    /\ arg' = [arg EXCEPT ![p] = [index |-> ix, map |-> map, mapping |-> Absent]]
    /\ parts' = [parts EXCEPT ![p] = Chunk(KeysOf(map), ChunkSize)]
    /\ sent' = [sent EXCEPT ![p] = 0]
    /\ done' = [done EXCEPT ![p] = 0]
    /\ value' = [value EXCEPT ![p] = Undefined]
    /\ ret' = [ret EXCEPT ![p] = NoRet]
    /\ sendLog' = [sendLog EXCEPT ![p] = <<>>]
    /\ failedEver' = [failedEver EXCEPT ![p] = {}]
    /\ clean' = [clean EXCEPT ![p] = TRUE]
    /\ UNCHANGED <<readVars, engineVars, subjects, reqLog, firstSubjects, agg>>

\* A then-callback runs without waiting for the request before it.
MaySendUnchained(p) == sent[p] < Len(parts[p])

\* promises = promises.then(() => client.bulk(...)): the callback of batch
\* k + 1 runs once the request of batch k has resolved.
MaySend(p) == sent[p] = done[p] /\ sent[p] < Len(parts[p])

BulkIndexSend(p) ==
    /\ pc[p] = "bulkIndex"
    /\ MaySend(p)
    /\ sent' = [sent EXCEPT ![p] = @ + 1]
    /\ sendLog' = [sendLog EXCEPT ![p] = Append(@, sent[p] + 1)]
    /\ reqLog' = reqLog \cup {[op |-> "index", refresh |-> RefreshOfIndex]}
    /\ UNCHANGED <<readVars, engineVars, subjects, pc, arg, parts, done, value, ret,
                   calls, failedEver, clean, firstSubjects, agg>>

\* The engine answers the oldest outstanding request of the call: the ids of
\* F failed, the others are written.
BulkIndexRespond(p, F) ==
    /\ pc[p] = "bulkIndex"
    /\ done[p] < sent[p]
    /\ LET ix == arg[p].index
           ids == Range(parts[p][done[p] + 1])
           newDocs == ApplyIndex(stored[ix], ids, arg[p].map, F)
       IN /\ F \subseteq ids
          /\ idxMapping' = [idxMapping EXCEPT ![ix] = AutoCreate(@)]
          /\ stored' = [stored EXCEPT ![ix] = newDocs]
          /\ visible' = [visible EXCEPT ![ix] = ViewAfter(RefreshOfIndex, newDocs, @)]
    /\ done' = [done EXCEPT ![p] = @ + 1]
    /\ value' = [value EXCEPT ![p] = BulkResponse(F)]
    /\ failedEver' = [failedEver EXCEPT ![p] = @ \cup F]
    /\ clean' = Dirty(p)
    /\ UNCHANGED <<readVars, subjects, pc, arg, parts, sent, ret, calls, sendLog, reqLog,
                   firstSubjects, agg>>

\* A rejected request handled by sending the batch again.
BulkIndexRejectRetry(p) ==
    /\ pc[p] = "bulkIndex"
    /\ done[p] < sent[p]
    /\ Len(sendLog[p]) < 2 * Len(parts[p])
    /\ sendLog' = [sendLog EXCEPT ![p] = Append(@, done[p] + 1)]
    /\ UNCHANGED <<readVars, engineVars, subjects, pc, arg, parts, sent, done, value, ret,
                   calls, failedEver, clean, reqLog, firstSubjects, agg>>

\* A rejected request followed by the removal of what the earlier batches of
\* the call wrote.
BulkIndexRejectRollback(p) ==
    /\ pc[p] = "bulkIndex"
    /\ done[p] < sent[p]
    /\ pc' = [pc EXCEPT ![p] = "idle"]
    /\ ret' = [ret EXCEPT ![p] = Ret("bulkIndex", "error", Undefined, FALSE)]
    /\ LET ix == arg[p].index
           kept == DOMAIN stored[ix] \ DOMAIN arg[p].map
       IN /\ stored' = [stored EXCEPT ![ix] = [i \in kept |-> stored[ix][i]]]
          /\ visible' = [visible EXCEPT ![ix] = [i \in kept \cap DOMAIN @ |-> @[i]]]
    /\ UNCHANGED <<readVars, idxMapping, subjects, arg, parts, sent, done, value, calls,
                   sendLog, failedEver, clean, reqLog, firstSubjects, agg>>

\* The request is rejected: no later then-callback runs and the promise the
\* call returned rejects.
BulkIndexReject(p) ==
    /\ pc[p] = "bulkIndex"
    /\ done[p] < sent[p]
    /\ pc' = [pc EXCEPT ![p] = "idle"]
    /\ ret' = [ret EXCEPT ![p] = Ret("bulkIndex", "error", Undefined, FALSE)]
    /\ UNCHANGED <<readVars, engineVars, subjects, arg, parts, sent, done, value, calls,
                   sendLog, failedEver, clean, reqLog, firstSubjects, agg>>

\* return promises: the chain resolves with the value of its last request.
BulkIndexReturn(p) ==
    /\ pc[p] = "bulkIndex"
    /\ sent[p] = Len(parts[p])
    /\ done[p] = sent[p]
    /\ pc' = [pc EXCEPT ![p] = "idle"]
    /\ ret' = [ret EXCEPT ![p] = Ret("bulkIndex", "ok", value[p], FALSE)]
    /\ UNCHANGED <<readVars, engineVars, subjects, arg, parts, sent, done, value, calls,
                   sendLog, failedEver, clean, reqLog, firstSubjects, agg>>

----------------------------------------------------------------------------
(* bulkUpdateFromMap *)

\* The bulk body is built and the request sent before the call suspends.
CallBulkUpdate(p, ix, map, budget) ==
    /\ pc[p] = "idle"
    /\ calls < budget
    /\ calls' = calls + 1
    /\ pc' = [pc EXCEPT ![p] = "bulkUpdate"]
    /\ arg' = [arg EXCEPT ![p] = [index |-> ix, map |-> map, mapping |-> Absent]]
    /\ ret' = [ret EXCEPT ![p] = NoRet]
    /\ clean' = [clean EXCEPT ![p] = TRUE]
    /\ reqLog' = reqLog \cup {[op |-> "update", refresh |-> RefreshOfUpdate]}
    /\ UNCHANGED <<readVars, engineVars, subjects, chainVars, firstSubjects, agg>>

\* The engine patches the documents that exist; the response is dropped and
\* the call returns undefined.
BulkUpdateRespond(p) ==
    /\ pc[p] = "bulkUpdate"
    /\ LET ix == arg[p].index
           ids == DOMAIN arg[p].map
           newDocs == ApplyUpdate(stored[ix], ids, arg[p].map)
       IN /\ idxMapping' = [idxMapping EXCEPT ![ix] = AutoCreate(@)]
          /\ stored' = [stored EXCEPT ![ix] = newDocs]
          /\ visible' = [visible EXCEPT ![ix] = ViewAfter(RefreshOfUpdate, newDocs, @)]
    /\ pc' = [pc EXCEPT ![p] = "idle"]
    /\ ret' = [ret EXCEPT ![p] = Ret("bulkUpdate", "ok", Undefined, FALSE)]
    /\ clean' = Dirty(p)
    /\ UNCHANGED <<readVars, subjects, arg, chainVars, calls, reqLog, firstSubjects, agg>>

BulkUpdateReject(p) ==
    /\ pc[p] = "bulkUpdate"
    /\ pc' = [pc EXCEPT ![p] = "idle"]
    /\ ret' = [ret EXCEPT ![p] = Ret("bulkUpdate", "error", Undefined, FALSE)]
    /\ UNCHANGED <<readVars, engineVars, subjects, arg, chainVars, calls, clean, reqLog,
                   firstSubjects, agg>>

----------------------------------------------------------------------------
(* resetIndex *)

CallResetIndex(p, ix, mapping, budget) ==
    /\ pc[p] = "idle"
    /\ calls < budget
    /\ calls' = calls + 1
    /\ pc' = [pc EXCEPT ![p] = "resetDelete"]
    /\ arg' = [arg EXCEPT ![p] = [index |-> ix, map |-> NoDocs, mapping |-> mapping]]
    /\ ret' = [ret EXCEPT ![p] = NoRet]
    /\ clean' = [clean EXCEPT ![p] = TRUE]
    /\ UNCHANGED <<readVars, engineVars, subjects, chainVars, reqLog, firstSubjects, agg>>

\* client.indices.delete resolves: the index and its documents are gone, and
\* the create request is sent.
ResetDeleteRespond(p) ==
    /\ pc[p] = "resetDelete"
    /\ Exists(arg[p].index)
    /\ idxMapping' = [idxMapping EXCEPT ![arg[p].index] = Absent]
    /\ stored' = [stored EXCEPT ![arg[p].index] = NoDocs]
    /\ visible' = [visible EXCEPT ![arg[p].index] = NoDocs]
    /\ pc' = [pc EXCEPT ![p] = "resetCreate"]
    /\ clean' = Dirty(p)
    /\ UNCHANGED <<readVars, subjects, arg, chainVars, ret, calls, reqLog, firstSubjects, agg>>

\* client.indices.delete without the catch: its rejection is the caller's.
ResetDeleteFailPropagates(p) ==
    /\ pc[p] = "resetDelete"
    /\ pc' = [pc EXCEPT ![p] = "idle"]
    /\ ret' = [ret EXCEPT ![p] = Ret("resetIndex", "error", Undefined, FALSE)]
    /\ UNCHANGED <<readVars, engineVars, subjects, arg, chainVars, calls, clean, reqLog,
                   firstSubjects, agg>>

\* client.indices.delete rejects (the index is missing, or the engine is
\* unreachable): .catch(() => {}) drops the error and the create request is
\* sent.
ResetDeleteFail(p) ==
    /\ pc[p] = "resetDelete"
    /\ pc' = [pc EXCEPT ![p] = "resetCreate"]
    /\ UNCHANGED <<readVars, engineVars, subjects, arg, chainVars, ret, calls, clean,
                   reqLog, firstSubjects, agg>>

\* A reset that also drops the cached subjects.
ResetCreateRespondClearsCache(p) ==
    /\ pc[p] = "resetCreate"
    /\ ~Exists(arg[p].index)
    /\ idxMapping' = [idxMapping EXCEPT ![arg[p].index] = arg[p].mapping]
    /\ pc' = [pc EXCEPT ![p] = "idle"]
    /\ ret' = [ret EXCEPT ![p] = Ret("resetIndex", "ok", Undefined, FALSE)]
    /\ clean' = Dirty(p)
    /\ subjects' = NullRef
    /\ UNCHANGED <<readVars, stored, visible, arg, chainVars, calls, reqLog,
                   firstSubjects, agg>>

\* client.indices.create resolves: the index exists with the given mapping
\* and no documents.
ResetCreateRespond(p) ==
    /\ pc[p] = "resetCreate"
    /\ ~Exists(arg[p].index)
    /\ idxMapping' = [idxMapping EXCEPT ![arg[p].index] = arg[p].mapping]
    /\ pc' = [pc EXCEPT ![p] = "idle"]
    /\ ret' = [ret EXCEPT ![p] = Ret("resetIndex", "ok", Undefined, FALSE)]
    /\ clean' = Dirty(p)
    /\ UNCHANGED <<readVars, stored, visible, subjects, arg, chainVars, calls, reqLog,
                   firstSubjects, agg>>

\* client.indices.create rejects (the index exists, or the engine is
\* unreachable): the error is the caller's.
ResetCreateFail(p) ==
    /\ pc[p] = "resetCreate"
    /\ pc' = [pc EXCEPT ![p] = "idle"]
    /\ ret' = [ret EXCEPT ![p] = Ret("resetIndex", "error", Undefined, FALSE)]
    /\ UNCHANGED <<readVars, engineVars, subjects, arg, chainVars, calls, clean, reqLog,
                   firstSubjects, agg>>

----------------------------------------------------------------------------
(* getSubjectsFromClasses *)

\* if (this.subjects) return this.subjects;
SubjectsCached(p, budget) ==
    /\ pc[p] = "idle"
    /\ calls < budget
    /\ Truthy(subjects)
    /\ calls' = calls + 1
    /\ arg' = [arg EXCEPT ![p] = NoArg]
    /\ ret' = [ret EXCEPT ![p] = Ret("getSubjects", "ok", SubjectsValue(subjects), TRUE)]
    /\ UNCHANGED <<readVars, engineVars, subjects, pc, chainVars, clean, reqLog,
                   firstSubjects, agg>>

\* Otherwise the aggregation query is sent and the call suspends.
SubjectsQuery(p, budget) ==
    /\ pc[p] = "idle"
    /\ calls < budget
    /\ ~Truthy(subjects)
    /\ calls' = calls + 1
    /\ pc' = [pc EXCEPT ![p] = "subjects"]
    /\ arg' = [arg EXCEPT ![p] = NoArg]
    /\ ret' = [ret EXCEPT ![p] = NoRet]
    /\ agg' = [agg EXCEPT !.sent = @ + 1]
    /\ UNCHANGED <<readVars, engineVars, subjects, chainVars, clean, reqLog, firstSubjects>>

\* The aggregation resolves: this.subjects is assigned and returned.
SubjectsRespond(p) ==
    /\ pc[p] = "subjects"
    /\ Exists(CLASS_INDEX)
    /\ LET computed == LowercasedSet(SubjectBuckets(visible[CLASS_INDEX]))
       IN /\ subjects' = computed
          /\ ret' = [ret EXCEPT ![p] = Ret("getSubjects", "ok", SubjectsValue(computed), FALSE)]
          /\ firstSubjects' = IF Truthy(firstSubjects) THEN firstSubjects ELSE computed
    /\ pc' = [pc EXCEPT ![p] = "idle"]
    /\ UNCHANGED <<readVars, engineVars, arg, chainVars, calls, clean, reqLog, agg>>

\* The failure path assigning an empty vocabulary.
SubjectsFailAssignsEmpty(p) ==
    /\ pc[p] = "subjects"
    /\ pc' = [pc EXCEPT ![p] = "idle"]
    /\ subjects' = SetRef({})
    /\ ret' = [ret EXCEPT ![p] = Ret("getSubjects", "error", Undefined, FALSE)]
    /\ agg' = [agg EXCEPT !.failed = @ + 1]
    /\ UNCHANGED <<readVars, engineVars, arg, chainVars, calls, clean, reqLog, firstSubjects>>

\* The aggregation rejects (the index is missing, or the engine is
\* unreachable): the await throws before the assignment.
SubjectsFail(p) ==
    /\ pc[p] = "subjects"
    /\ pc' = [pc EXCEPT ![p] = "idle"]
    /\ ret' = [ret EXCEPT ![p] = Ret("getSubjects", "error", Undefined, FALSE)]
    /\ agg' = [agg EXCEPT !.failed = @ + 1]
    /\ UNCHANGED <<readVars, engineVars, subjects, arg, chainVars, calls, clean, reqLog,
                   firstSubjects>>

----------------------------------------------------------------------------
(* Text: a string is the sequence of its characters. *)

\* The characters of the model, in the order of their code units.
Alphabet == <<" ", "0", "1", "2", "A", "B", "C", "D", "I", "O", "S",
              "a", "b", "c", "d", "i", "o", "s">>
Uppers == <<"A", "B", "C", "D", "I", "O", "S">>
Lowers == <<"a", "b", "c", "d", "i", "o", "s">>
Digits == <<"0", "1", "2">>

CharCode(c) == CHOOSE i \in DOMAIN Alphabet : Alphabet[i] = c
IsDigit(c) == c \in Range(Digits)
IsLetter(c) == c \in Range(Uppers) \cup Range(Lowers)
DigitValue(c) == (CHOOSE i \in DOMAIN Digits : Digits[i] = c) - 1

LowerChar(c) ==
    IF c \in Range(Uppers)
    THEN Lowers[CHOOSE i \in DOMAIN Uppers : Uppers[i] = c]
    ELSE c
UpperChar(c) ==
    IF c \in Range(Lowers)
    THEN Uppers[CHOOSE i \in DOMAIN Lowers : Lowers[i] = c]
    ELSE c
LowerCase(s) == [i \in DOMAIN s |-> LowerChar(s[i])]
UpperCase(s) == [i \in DOMAIN s |-> UpperChar(s[i])]

\* The order of keyword values: code unit by code unit, a proper prefix first.
LexLess(s, t) ==
    \E k \in 1..(Len(t)) :
        /\ k <= Len(s) + 1
        /\ \A j \in 1..(k - 1) : s[j] = t[j]
        /\ \/ k = Len(s) + 1
           \/ CharCode(s[k]) < CharCode(t[k])

\* The number a run of digits denotes.
RECURSIVE ToNumber(_)
ToNumber(s) ==
    IF s = <<>> THEN 0
    ELSE 10 * ToNumber(SubSeq(s, 1, Len(s) - 1)) + DigitValue(s[Len(s)])

\* The words of a text: its maximal runs of characters other than the space.
RECURSIVE SplitWords(_)
SplitWords(s) ==
    IF s = <<>> THEN <<>>
    ELSE IF s[1] = " " THEN SplitWords(Tail(s))
    ELSE LET stops == {i \in DOMAIN s : s[i] = " "}
             end == IF stops = {} THEN Len(s) + 1
                    ELSE CHOOSE i \in stops : \A j \in stops : i <= j
         IN <<SubSeq(s, 1, end - 1)>> \o SplitWords(SubSeq(s, end, Len(s)))

\* The words joined by single spaces.
RECURSIVE JoinWords(_)
JoinWords(ws) ==
    IF ws = <<>> THEN <<>>
    ELSE IF Len(ws) = 1 THEN ws[1]
    ELSE ws[1] \o <<" ">> \o JoinWords(Tail(ws))

\* The standard analysis of a text field and of a query on it: the
\* lowercased words.
StandardTokens(s) == SplitWords(LowerCase(s))

----------------------------------------------------------------------------
(* The documents of the classes index that search reads. *)

ClassDoc(termId, subject, classId, name) ==
    [type |-> "class",
     class |-> [termId |-> termId, subject |-> subject, classId |-> classId,
                name |-> name]]
EmployeeDoc(name) == [type |-> "employee", employee |-> [name |-> name]]

IsClass(doc) == "type" \in DOMAIN doc /\ doc.type = "class"
IsEmployee(doc) == "type" \in DOMAIN doc /\ doc.type = "employee"

TermIds == {"202010", "202030"}

SubjectCS == <<"C", "S">>
Id200 == <<"2", "0", "0">>
Id1000 == <<"1", "0", "0", "0">>
NameBio == <<"b", "i", "o">>
NameAda == <<"a", "d", "a">>

\* Two classes of one subject in the first term, one of them also offered in
\* the second term, and an employee who shares a name with a class.
SeedCatalog ==
    <<ClassDoc("202010", SubjectCS, Id200, NameBio),
      ClassDoc("202010", SubjectCS, Id1000, NameAda),
      ClassDoc("202030", SubjectCS, Id200, NameBio),
      EmployeeDoc(NameAda)>>

\* The catalog after a bulkUpdateFromMap that renamed its first class.
SeedRenamed ==
    [SeedCatalog EXCEPT ![1] = Merge(@, [class |-> [@.class EXCEPT !.name = NameAda]])]

SeedStaff == <<EmployeeDoc(NameBio)>>

\* The text fields of a document, as the sequence of their values.
TextFields(doc) ==
    IF IsClass(doc) THEN <<doc.class.subject, doc.class.classId, doc.class.name>>
    ELSE IF IsEmployee(doc) THEN <<doc.employee.name>>
    ELSE <<>>

\* The queries the callers send.
Queries ==
    {<<>>,
     <<"c", "s">>,
     NameAda,
     NameBio,
     <<"b", "i", "a">>,
     <<"a", "d", "a", " ", "c", "s">>,
     <<"c", "s">> \o Id200,
     <<"c", "s", " ">> \o Id200,
     <<"C", "S">> \o Id200,
     <<"C", "S", " ">> \o Id200}

----------------------------------------------------------------------------
(* The analysis the index mapping gives a query. *)

\* The subject vocabulary: the lowercased subjects of the classes indexed.
Vocabulary(docs) ==
    {LowerCase(docs[i].class.subject) : i \in {j \in DOMAIN docs : IsClass(docs[j])}}

\* The leading run of letters of a query, and what follows it once one
\* embedded space is dropped.
LetterRun(q) ==
    LET ends == {k \in 0..Len(q) :
                    /\ \A j \in 1..k : IsLetter(q[j])
                    /\ k < Len(q) => ~IsLetter(q[k + 1])}
    IN SubSeq(q, 1, CHOOSE k \in ends : TRUE)
AfterLetters(q) ==
    LET r == SubSeq(q, Len(LetterRun(q)) + 1, Len(q))
    IN IF r # <<>> /\ r[1] = " " THEN Tail(r) ELSE r

\* A course code: the letters of a known subject, then digits, with at most
\* one space between them.
IsCourseCode(vocabulary, q) ==
    /\ LetterRun(q) # <<>>
    /\ LowerCase(LetterRun(q)) \in vocabulary
    /\ AfterLetters(q) # <<>>
    /\ \A j \in DOMAIN AfterLetters(q) : IsDigit(AfterLetters(q)[j])

\* The canonical phrase of a course code: "SUBJECT classId".
CanonicalPhrase(q) == UpperCase(LetterRun(q)) \o <<" ">> \o AfterLetters(q)

\* The query as it is sent to the fields, course codes untouched.
AnalyzeQueryVerbatim(vocabulary, q) == StandardTokens(q)

\* The tokens of a query: those of its canonical phrase when it is a course
\* code, its own otherwise.
AnalyzeQuery(vocabulary, q) ==
    IF IsCourseCode(vocabulary, q)
    THEN StandardTokens(CanonicalPhrase(q))
    ELSE StandardTokens(q)

----------------------------------------------------------------------------
(* client.search as search calls it. *)

\* multi_match of type most_fields: every field is matched on its own and
\* the scores of the fields add up; a field scores by the query tokens it
\* holds.
FieldScore(text, tokens) ==
    Cardinality({t \in Range(tokens) : t \in Range(StandardTokens(text))})
RECURSIVE SumScores(_, _)
SumScores(texts, tokens) ==
    IF texts = <<>> THEN 0
    ELSE FieldScore(Head(texts), tokens) + SumScores(Tail(texts), tokens)
Score(doc, tokens) == SumScores(TextFields(doc), tokens)

\* bool.should in place of bool.must: under a filter the clause is optional.
MultiMatchShould(doc, tokens) == TRUE

\* bool.must: { multi_match }: a document without a matching token is not a
\* hit; a query without tokens matches no document.
MultiMatchMust(doc, tokens) == Score(doc, tokens) > 0

\* The filter with the class.termId clause alone.
TermFilterClassesOnly(doc, termId) == IsClass(doc) /\ doc.class.termId = termId

\* filter.bool.should: [term class.termId = termId, term type = 'employee']
TermFilter(doc, termId) ==
    \/ IsClass(doc) /\ doc.class.termId = termId
    \/ IsEmployee(doc)

\* The ids of the hits of the query.
HitIds(docs, tokens, termId) ==
    {i \in DOMAIN docs : MultiMatchMust(docs[i], tokens) /\ TermFilter(docs[i], termId)}

\* sort: ['_score', { 'class.classId.keyword': { order: 'asc' } }]: the
\* higher score first; at equal scores the lower keyword value of
\* class.classId first and the documents without one last; then the order of
\* the documents in the index.
KeywordBefore(a, b) ==
    IF IsClass(a)
    THEN ~IsClass(b) \/ LexLess(a.class.classId, b.class.classId)
    ELSE FALSE
SortsBefore(docs, tokens, i, j) ==
    LET si == Score(docs[i], tokens)
        sj == Score(docs[j], tokens)
    IN \/ si > sj
       \/ si = sj /\ KeywordBefore(docs[i], docs[j])
       \/ /\ si = sj
          /\ ~KeywordBefore(docs[i], docs[j])
          /\ ~KeywordBefore(docs[j], docs[i])
          /\ i < j
Ranked(docs, tokens, termId) ==
    LET ids == HitIds(docs, tokens, termId)
    IN [r \in 1..Cardinality(ids) |->
           CHOOSE i \in ids :
               Cardinality({j \in ids : SortsBefore(docs, tokens, j, i)}) = r - 1]

\* { ...hit._source, score: hit._score }
Hit(doc, score) == Merge(doc, [score |-> score])

\* The response to from/size: the hits of the ranks from + 1 .. from + size
\* and the number of all the hits.
SearchResponse(docs, query, termId, from, size) ==
    LET tokens == AnalyzeQuery(Vocabulary(docs), query)
        ranked == Ranked(docs, tokens, termId)
        last == Min(from + size, Len(ranked))
    IN [searchContent |->
            [k \in 1..(IF last > from THEN last - from ELSE 0) |->
                Hit(docs[ranked[from + k]], Score(docs[ranked[from + k]], tokens))],
        resultCount |-> Len(ranked)]

----------------------------------------------------------------------------
(* getMapFromIDs *)

\* body.docs of client.mget: one entry for each requested id, found or not,
\* read from the primary store.
MgetDocs(docs, ids) ==
    [i \in ids |->
        IF i \in DOMAIN docs
        THEN [found |-> TRUE, source |-> docs[i]]
        ELSE [found |-> FALSE, source |-> NoDocs]]

\* The reduce without the test of doc.found.
ReduceAll(body) == [i \in DOMAIN body |-> body[i].source]

\* reduce((result, doc) => { if (doc.found) result[doc._id] = doc._source })
ReduceFound(body) ==
    [i \in {j \in DOMAIN body : body[j].found} |-> body[i].source]

CallGetMap(p, ix, ids, budget) ==
    /\ pc[p] = "idle"
    /\ calls < budget
    /\ calls' = calls + 1
    /\ pc' = [pc EXCEPT ![p] = "mget"]
    /\ rarg' = [rarg EXCEPT ![p] = ReadArg(ix, ids, <<>>, "", 0, 0)]
    /\ got' = [got EXCEPT ![p] = NoDocs]
    /\ searchOutput' = [searchOutput EXCEPT ![p] = NoOutput]
    /\ ret' = [ret EXCEPT ![p] = NoRet]
    /\ UNCHANGED <<engineVars, subjects, arg, chainVars, clean, reqLog,
                   firstSubjects, agg>>

GetMapRespond(p) ==
    /\ pc[p] = "mget"
    /\ Exists(rarg[p].index)
    /\ got' = [got EXCEPT ![p] = ReduceFound(MgetDocs(stored[rarg[p].index], rarg[p].ids))]
    /\ pc' = [pc EXCEPT ![p] = "idle"]
    /\ ret' = [ret EXCEPT ![p] = Ret("getMapFromIDs", "ok", Undefined, FALSE)]
    /\ UNCHANGED <<engineVars, subjects, arg, chainVars, calls, rarg,
                   searchOutput, clean, reqLog, firstSubjects, agg>>

\* client.mget rejects (the index is missing, or the engine is unreachable).
GetMapFail(p) ==
    /\ pc[p] = "mget"
    /\ pc' = [pc EXCEPT ![p] = "idle"]
    /\ ret' = [ret EXCEPT ![p] = Ret("getMapFromIDs", "error", Undefined, FALSE)]
    /\ UNCHANGED <<engineVars, subjects, arg, chainVars, calls, readVars,
                   clean, reqLog, firstSubjects, agg>>

----------------------------------------------------------------------------
(* search *)

CallSearch(p, query, termId, min, max, budget) ==
    /\ pc[p] = "idle"
    /\ calls < budget
    /\ calls' = calls + 1
    /\ pc' = [pc EXCEPT ![p] = "search"]
    /\ rarg' = [rarg EXCEPT ![p] = ReadArg(CLASS_INDEX, {}, query, termId, min, max)]
    /\ got' = [got EXCEPT ![p] = NoDocs]
    /\ searchOutput' = [searchOutput EXCEPT ![p] = NoOutput]
    /\ ret' = [ret EXCEPT ![p] = NoRet]
    /\ UNCHANGED <<engineVars, subjects, arg, chainVars, clean, reqLog,
                   firstSubjects, agg>>

\* The engine answers from: min, size: max - min out of what a search sees;
\* the call returns the hits with their scores and the total.
SearchRespond(p) ==
    /\ pc[p] = "search"
    /\ Exists(rarg[p].index)
    /\ rarg[p].max >= rarg[p].min
    /\ searchOutput' =
          [searchOutput EXCEPT ![p] =
              SearchResponse(visible[rarg[p].index], rarg[p].query, rarg[p].termId,
                             rarg[p].min, rarg[p].max - rarg[p].min)]
    /\ pc' = [pc EXCEPT ![p] = "idle"]
    /\ ret' = [ret EXCEPT ![p] = Ret("search", "ok", Undefined, FALSE)]
    /\ UNCHANGED <<engineVars, subjects, arg, chainVars, calls, rarg, got,
                   clean, reqLog, firstSubjects, agg>>

\* client.search rejects (a negative size, a missing index, or the engine is
\* unreachable).
SearchFail(p) ==
    /\ pc[p] = "search"
    /\ pc' = [pc EXCEPT ![p] = "idle"]
    /\ ret' = [ret EXCEPT ![p] = Ret("search", "error", Undefined, FALSE)]
    /\ UNCHANGED <<engineVars, subjects, arg, chainVars, calls, readVars,
                   clean, reqLog, firstSubjects, agg>>

----------------------------------------------------------------------------
(* phraseSuggest *)

\* The terms of the suggestions field of class.name.
SuggestTerms(docs) ==
    UNION {Range(StandardTokens(docs[i].class.name)) :
              i \in {j \in DOMAIN docs : IsClass(docs[j])}}

\* direct_generator with prefix_length: 2: a term of the field that has the
\* first two characters of the token and differs from it in at most two
\* places.
Corrects(u, t) ==
    /\ u # t
    /\ Len(u) = Len(t)
    /\ Len(t) >= 2
    /\ u[1] = t[1] /\ u[2] = t[2]
    /\ Cardinality({k \in DOMAIN t : u[k] # t[k]}) <= 2
Corrections(terms, t) ==
    IF t \in terms THEN {t} ELSE {u \in terms : Corrects(u, t)}

\* The options of the phrase suggester: the phrases that differ from the
\* text, made of terms of the field, every token kept or corrected.
PhraseSuggest(docs, query) ==
    LET tokens == StandardTokens(query)
        terms == SuggestTerms(docs)
    IN {JoinWords(c) : c \in {d \in [DOMAIN tokens -> terms] :
                                  /\ d # tokens
                                  /\ \A k \in DOMAIN tokens :
                                        d[k] \in Corrections(terms, tokens[k])}}

\* The first of the options.
TopSuggestion(options) ==
    CHOOSE o \in options : \A o2 \in options : o = o2 \/ LexLess(o, o2)

----------------------------------------------------------------------------
(* Specifications *)

\* The documents an index may hold when the process starts.
InitialDocs == {NoDocs, MapOf(1, DocB)}

\* The state after construction: this.subjects is null, no call is running;
\* the classes index is missing, or exists and is empty or holds a document
\* that has been refreshed.
Init ==
    /\ idxMapping \in [IndexNames -> {Absent} \cup Mappings]
    /\ stored \in [IndexNames -> InitialDocs]
    /\ \A ix \in IndexNames : ~Exists(ix) => stored[ix] = NoDocs
    /\ visible = stored
    /\ subjects = NullRef
    /\ pc = [p \in Procs |-> "idle"]
    /\ arg = [p \in Procs |-> NoArg]
    /\ parts = [p \in Procs |-> <<>>]
    /\ sent = [p \in Procs |-> 0]
    /\ done = [p \in Procs |-> 0]
    /\ value = [p \in Procs |-> Undefined]
    /\ ret = [p \in Procs |-> NoRet]
    /\ calls = 0
    /\ rarg = [p \in Procs |-> NoRead]
    /\ got = [p \in Procs |-> NoDocs]
    /\ searchOutput = [p \in Procs |-> NoOutput]
    /\ sendLog = [p \in Procs |-> <<>>]
    /\ failedEver = [p \in Procs |-> {}]
    /\ clean = [p \in Procs |-> TRUE]
    /\ reqLog = {}
    /\ firstSubjects = NullRef
    /\ agg = [sent |-> 0, failed |-> 0]

\* The steps of the write calls in flight and of the engine.
Progress ==
    \/ EngineRefresh
    \/ \E p \in Procs :
        \/ BulkIndexSend(p)
        \/ \E F \in SUBSET FlakyIds : BulkIndexRespond(p, F)
        \/ BulkIndexReject(p)
        \/ BulkIndexReturn(p)
        \/ BulkUpdateRespond(p)
        \/ BulkUpdateReject(p)
        \/ ResetDeleteRespond(p)
        \/ ResetDeleteFail(p)
        \/ ResetCreateRespond(p)
        \/ ResetCreateFail(p)

\* Ingestion: maps of up to MaxKeys documents.
Next ==
    \/ Progress
    \/ \E p \in Procs, ix \in IndexNames :
        \/ \E n \in KeyCounts, d \in IngestDocs : CallBulkIndex(p, ix, MapOf(n, d), MaxCalls)
        \/ \E n \in SmallKeyCounts \cup {ChunkSize + 1}, d \in Patches :
              CallBulkUpdate(p, ix, MapOf(n, d), MaxCalls)
        \/ \E m \in Mappings : CallResetIndex(p, ix, m, MaxCalls)

Spec == Init /\ [][Next]_vars

\* Small maps and both documents next to the subject cache, over longer
\* runs of calls.
NextSmall ==
    \/ Progress
    \/ \E p \in Procs, ix \in IndexNames :
        \/ \E n \in SmallKeyCounts, d \in Docs : CallBulkIndex(p, ix, MapOf(n, d), MaxSmallCalls)
        \/ \E n \in SmallKeyCounts, d \in Patches :
              CallBulkUpdate(p, ix, MapOf(n, d), MaxSmallCalls)
        \/ \E m \in Mappings : CallResetIndex(p, ix, m, MaxSmallCalls)
    \/ \E p \in Procs :
        \/ SubjectsCached(p, MaxSmallCalls)
        \/ SubjectsQuery(p, MaxSmallCalls)
        \/ SubjectsRespond(p)
        \/ SubjectsFail(p)

SpecSmall == Init /\ [][NextSmall]_vars

\* The caller of the read calls, the ranks it asks for and the ids it asks
\* for.
Readers == {"p1"}
MaxRank == 2
IdSets == SUBSET (1..(Len(SeedCatalog) + 1))

\* What the classes index may hold when a read call arrives: nothing, the
\* catalog, the catalog with an update that is not yet searchable, or
\* employees alone.
SearchSeeds ==
    {[stored |-> NoDocs, visible |-> NoDocs],
     [stored |-> SeedCatalog, visible |-> SeedCatalog],
     [stored |-> SeedRenamed, visible |-> SeedCatalog],
     [stored |-> SeedStaff, visible |-> SeedStaff]}

InitSearch ==
    /\ idxMapping \in [IndexNames -> {Absent} \cup Mappings]
    /\ \E seed \in SearchSeeds :
          /\ stored = [ix \in IndexNames |-> seed.stored]
          /\ visible = [ix \in IndexNames |-> seed.visible]
    /\ \A ix \in IndexNames : ~Exists(ix) => stored[ix] = NoDocs
    /\ subjects = NullRef
    /\ pc = [p \in Procs |-> "idle"]
    /\ arg = [p \in Procs |-> NoArg]
    /\ parts = [p \in Procs |-> <<>>]
    /\ sent = [p \in Procs |-> 0]
    /\ done = [p \in Procs |-> 0]
    /\ value = [p \in Procs |-> Undefined]
    /\ ret = [p \in Procs |-> NoRet]
    /\ calls = 0
    /\ rarg = [p \in Procs |-> NoRead]
    /\ got = [p \in Procs |-> NoDocs]
    /\ searchOutput = [p \in Procs |-> NoOutput]
    /\ sendLog = [p \in Procs |-> <<>>]
    /\ failedEver = [p \in Procs |-> {}]
    /\ clean = [p \in Procs |-> TRUE]
    /\ reqLog = {}
    /\ firstSubjects = NullRef
    /\ agg = [sent |-> 0, failed |-> 0]

\* The read calls on an index nobody writes to.
NextSearch ==
    \/ EngineRefresh
    \/ \E p \in Readers :
        \/ \E ids \in IdSets : CallGetMap(p, CLASS_INDEX, ids, MaxCalls)
        \/ GetMapRespond(p)
        \/ GetMapFail(p)
        \/ \E q \in Queries, t \in TermIds, min \in 0..MaxRank, max \in 0..MaxRank :
              CallSearch(p, q, t, min, max, MaxCalls)
        \/ SearchRespond(p)
        \/ SearchFail(p)

SpecSearch == InitSearch /\ [][NextSearch]_vars

----------------------------------------------------------------------------
(* Properties *)

WriteOps == {"bulkIndex", "bulkUpdate", "resetIndex"}
WritePcs == {"bulkIndex", "bulkUpdate", "resetDelete", "resetCreate"}

\* The number of ids in the chunks before chunk k.
RECURSIVE Offset(_, _)
Offset(ps, k) == IF k <= 1 THEN 0 ELSE Offset(ps, k - 1) + Len(ps[k - 1])

\* The subjects the index would aggregate to now.
CurrentSubjects == LowercasedSet(SubjectBuckets(visible[CLASS_INDEX]))

\* C1: once bulkIndexFromMap has returned successfully (the promise resolved
\* and the returned response reports no failed document), and nobody else
\* wrote to the index meanwhile, a search sees every document of the map.
C1_ReadAfterWrite ==
    \A p \in Procs :
        (/\ ret[p].op = "bulkIndex"
         /\ ret[p].status = "ok"
         /\ ret[p].value.failed = {}
         /\ clean[p])
        => \A i \in DOMAIN arg[p].map :
              /\ i \in DOMAIN visible[arg[p].index]
              /\ visible[arg[p].index][i] = arg[p].map[i]

\* C2: the chunks of a running bulkIndexFromMap call are consecutive slices
\* of the map's ids, each of 1..ChunkSize ids, every id in exactly one of
\* them; the batches are sent in order, and at most one bulk request of the
\* call is outstanding.
C2_SequentialBatches ==
    \A p \in Procs : pc[p] = "bulkIndex" =>
        LET keys == KeysOf(arg[p].map)
            ps == parts[p]
        IN /\ Offset(ps, Len(ps) + 1) = Len(keys)
           /\ \A k \in DOMAIN ps :
                 /\ Len(ps[k]) >= 1
                 /\ Len(ps[k]) <= ChunkSize
                 /\ \A j \in DOMAIN ps[k] : ps[k][j] = keys[Offset(ps, k) + j]
           /\ sent[p] <= done[p] + 1
           /\ sendLog[p] = [k \in 1..sent[p] |-> k]

\* C2 witness: the third batch of a call is outstanding, the first two
\* having completed.
C2_Witness ==
    \E p \in Procs :
        /\ pc[p] = "bulkIndex"
        /\ Len(parts[p]) = 3
        /\ sent[p] = 3
        /\ done[p] = 2

\* C3: a getSubjectsFromClasses call that starts after one call has
\* completed returns the set that call computed, from the cache, and no
\* aggregation query is sent any more.
C3_PopulateOnce ==
    /\ Truthy(firstSubjects) => Truthy(subjects)
    /\ \A p \in Procs :
          (ret[p].op = "getSubjects" /\ ret[p].status = "ok" /\ ret[p].cached)
          => ret[p].value.elems = firstSubjects.elems

\* C4: concurrent first callers converge: the calls that computed the set
\* return the same set, and the cache holds the first computed set for good.
C4_SingleFlight ==
    /\ \A p, q \in Procs :
          (/\ ret[p].op = "getSubjects" /\ ret[p].status = "ok" /\ ~ret[p].cached
           /\ ret[q].op = "getSubjects" /\ ret[q].status = "ok" /\ ~ret[q].cached)
          => ret[p].value = ret[q].value
    /\ Truthy(firstSubjects) => subjects = firstSubjects

\* C5: a getSubjectsFromClasses call whose aggregation fails (as it must
\* when the index is missing) ends in an error for its caller and leaves
\* this.subjects as it was; a call ends well only with the set the engine
\* aggregated; and as long as no aggregation has succeeded the cache is
\* null, so that the next call queries again.
C5_FailureLeavesCacheUnset ==
    /\ [][\A p \in Procs :
            (pc[p] = "subjects" /\ pc'[p] = "idle") =>
                IF ret'[p].status = "error"
                THEN subjects' = subjects
                ELSE /\ Exists(CLASS_INDEX)
                     /\ ret'[p].status = "ok"
                     /\ subjects' = CurrentSubjects
                     /\ ret'[p].value = SubjectsValue(subjects')]_vars
    /\ [](~Truthy(firstSubjects) => ~Truthy(subjects))

\* C5 witness: one caller's aggregation failed and the same caller's next
\* call has sent the aggregation query again.
C5_Witness ==
    \E p \in Procs :
        /\ pc[p] = "subjects"
        /\ calls = 2
        /\ agg = [sent |-> 2, failed |-> 1]
        /\ \A q \in Procs \ {p} : pc[q] = "idle" /\ ret[q] = NoRet

\* C6: no step of a resetIndex, bulkIndexFromMap or bulkUpdateFromMap call
\* (the call, a request sent, a response, the return) changes this.subjects.
C6_WritesKeepCache ==
    [][\A p \in Procs :
          (/\ pc[p] \in WritePcs \/ pc'[p] \in WritePcs
           /\ <<pc[p], sent[p], done[p]>> # <<pc'[p], sent'[p], done'[p]>>)
          => subjects' = subjects]_vars

\* C6 witness: a call was answered from the cache with a set that differs
\* from what the index now aggregates to, after a write call completed.
C6_Witness ==
    \E p, q \in Procs :
        /\ ret[p].op = "getSubjects"
        /\ ret[p].cached
        /\ ret[p].value.elems = subjects.elems
        /\ Exists(CLASS_INDEX)
        /\ subjects # CurrentSubjects
        /\ ret[q].op \in WriteOps
        /\ ret[q].status = "ok"

\* C7: a bulkIndexFromMap call that resolves hands its caller every document
\* failure the engine reported in any of its batches.
C7_PartialFailuresSurfaced ==
    \A p \in Procs :
        (ret[p].op = "bulkIndex" /\ ret[p].status = "ok")
        => failedEver[p] \subseteq ret[p].value.failed

\* C8: every bulk request asks for refresh wait_for, so that after a
\* bulkUpdateFromMap call has returned, nobody else having written, searches
\* see the patched documents.
C8_EveryBulkWaitsForRefresh ==
    /\ \A r \in reqLog : r.refresh = "wait_for"
    /\ \A p \in Procs :
          (ret[p].op = "bulkUpdate" /\ ret[p].status = "ok" /\ clean[p])
          => visible[arg[p].index] = stored[arg[p].index]

\* C9: no batch of a bulkIndexFromMap call is sent twice, and a call that
\* ended in an error had sent nothing after the batch that was rejected.
C9_NoRetry ==
    \A p \in Procs :
        /\ \A i, j \in DOMAIN sendLog[p] : i # j => sendLog[p][i] # sendLog[p][j]
        /\ Len(sendLog[p]) <= Len(parts[p])
        /\ (ret[p].op = "bulkIndex" /\ ret[p].status = "error")
           => /\ pc[p] = "idle"
              /\ sent[p] = done[p] + 1
              /\ Len(sendLog[p]) = sent[p]

\* C9 witness: a call was rejected at its second batch.
C9_Witness ==
    \E p \in Procs :
        /\ ret[p].op = "bulkIndex"
        /\ ret[p].status = "error"
        /\ done[p] = 1
        /\ sendLog[p] = <<1, 2>>

\* C10: a batch of bulkIndexFromMap that the engine has answered leaves, for
\* every id it wrote, exactly the document of the map in the store, leaves
\* the other documents alone, and changes nothing when the store already
\* held the map's documents for those ids.
C10_ReplaceWholesale ==
    [][\A p \in Procs :
          (pc[p] = "bulkIndex" /\ done'[p] = done[p] + 1) =>
              LET ix == arg[p].index
                  ids == Range(parts[p][done[p] + 1]) \ value'[p].failed
              IN /\ \A i \in ids :
                        i \in DOMAIN stored'[ix] /\ stored'[ix][i] = arg[p].map[i]
                 /\ \A i \in DOMAIN stored[ix] \ ids :
                        i \in DOMAIN stored'[ix] /\ stored'[ix][i] = stored[ix][i]
                 /\ DOMAIN stored'[ix] = DOMAIN stored[ix] \cup ids
                 /\ (\A i \in ids :
                        i \in DOMAIN stored[ix] /\ stored[ix][i] = arg[p].map[i])
                    => stored'[ix] = stored[ix]]_vars

\* C10 witness: one caller indexed a document with a name, then another
\* indexed a document without one under the same id, and the stored
\* document has no name.
C10_Witness ==
    \E p, q \in Procs :
        /\ ret[q].op = "bulkIndex" /\ ret[q].status = "ok"
        /\ ret[q].value.failed = {} /\ ~clean[q]
        /\ arg[q].map = MapOf(1, DocA)
        /\ ret[p].op = "bulkIndex" /\ ret[p].status = "ok"
        /\ ret[p].value.failed = {} /\ clean[p]
        /\ arg[p].map = MapOf(1, DocB)
        /\ stored[CLASS_INDEX][1] = DocB
        /\ DOMAIN stored[CLASS_INDEX][1] = {"subject"}

\* C11: a bulkUpdateFromMap call that has returned left, in every stored
\* document whose id is in the map, the fields of the map's entry set to its
\* values and every other field as it was; it left the documents whose id is
\* not in the map as they were and created no document.
C11_PartialUpdatePatches ==
    [][\A p \in Procs :
          (pc[p] = "bulkUpdate" /\ pc'[p] = "idle" /\ ret'[p].status = "ok") =>
              LET ix == arg[p].index
                  map == arg[p].map
              IN /\ DOMAIN stored'[ix] = DOMAIN stored[ix]
                 /\ \A i \in DOMAIN stored[ix] :
                       IF i \in DOMAIN map
                       THEN /\ DOMAIN stored'[ix][i] = DOMAIN stored[ix][i] \cup DOMAIN map[i]
                            /\ \A f \in DOMAIN map[i] : stored'[ix][i][f] = map[i][f]
                            /\ \A f \in DOMAIN stored[ix][i] \ DOMAIN map[i] :
                                  stored'[ix][i][f] = stored[ix][i][f]
                       ELSE stored'[ix][i] = stored[ix][i]]_vars

\* C11 witness: a stored document with a subject and a name was patched with
\* a name alone and holds the new name and its old subject.
C11_Witness ==
    \E p \in Procs :
        /\ ret[p].op = "bulkUpdate" /\ ret[p].status = "ok" /\ clean[p]
        /\ arg[p].map = MapOf(1, PatchN)
        /\ 1 \in DOMAIN stored[CLASS_INDEX]
        /\ stored[CLASS_INDEX][1] = [subject |-> "CS", name |-> "Renamed"]

\* C19: resetIndex sends the create request only once the delete request has
\* ended; a rejected delete never ends the call, which goes on to create; a
\* call that returns well leaves the index with the given mapping and no
\* document; and a create request that cannot succeed because the index
\* exists ends the call in an error.
C19_ResetIndex ==
    [][\A p \in Procs :
          /\ (pc[p] = "resetDelete" /\ pc'[p] # "resetDelete")
             => pc'[p] = "resetCreate" /\ ret'[p] = NoRet
          /\ pc'[p] = "resetCreate" => pc[p] \in {"resetDelete", "resetCreate"}
          /\ (pc[p] = "resetCreate" /\ pc'[p] = "idle") =>
                IF ret'[p].status = "ok"
                THEN /\ ret'[p].op = "resetIndex"
                     /\ idxMapping'[arg[p].index] = arg[p].mapping
                     /\ stored'[arg[p].index] = NoDocs
                     /\ visible'[arg[p].index] = NoDocs
                ELSE ret'[p] = Ret("resetIndex", "error", Undefined, FALSE)
          /\ (pc[p] = "resetCreate" /\ pc'[p] = "idle" /\ Exists(arg[p].index))
             => ret'[p].status = "error"]_vars

\* C19 witness: the delete request of the only call so far was rejected while
\* the index exists, and the call has gone on to its create request.
C19_Witness ==
    \E p \in Procs :
        /\ pc[p] = "resetCreate"
        /\ calls = 1
        /\ Exists(arg[p].index)

\* C20: a bulkIndexFromMap call that ended in an error had sent no batch
\* after the rejected one, and, nobody else having written, the documents of
\* the batches before it that the engine accepted are in the store.
C20_StopOnFirstFailure ==
    \A p \in Procs :
        (ret[p].op = "bulkIndex" /\ ret[p].status = "error") =>
            /\ sendLog[p] = [k \in 1..(done[p] + 1) |-> k]
            /\ done[p] < Len(parts[p])
            /\ clean[p] =>
                  \A k \in 1..done[p] :
                      \A i \in Range(parts[p][k]) \ failedEver[p] :
                          /\ i \in DOMAIN stored[arg[p].index]
                          /\ stored[arg[p].index][i] = arg[p].map[i]

\* C20 witness: the third batch of a call was rejected and the documents of
\* its first two batches are stored.
C20_Witness ==
    \E p \in Procs :
        /\ ret[p].op = "bulkIndex" /\ ret[p].status = "error"
        /\ done[p] = 2
        /\ failedEver[p] = {}
        /\ DOMAIN stored[arg[p].index] = 1..(2 * ChunkSize)

\* What the read calls are measured against.
SearchDone(p) == ret[p].op = "search" /\ ret[p].status = "ok"
SearchReturns(p) == pc[p] = "search" /\ pc'[p] = "idle" /\ ret'[p].status = "ok"
Searchable(p) == visible[rarg[p].index]

\* C12: getMapFromIDs returns, for exactly the requested ids that are
\* stored, the stored source of each; an id that is not stored is left out
\* and the call still returns; no other id is in the map.
C12_GetMapReturnsStored ==
    \A p \in Procs :
        (ret[p].op = "getMapFromIDs" /\ ret[p].status = "ok") =>
            /\ DOMAIN got[p] = rarg[p].ids \cap DOMAIN stored[rarg[p].index]
            /\ \A i \in DOMAIN got[p] : got[p][i] = stored[rarg[p].index][i]

\* C12 witness: a call asked for a stored id and for one that is not stored
\* and returned the stored source of the first, which is not yet searchable.
C12_Witness ==
    \E p \in Procs :
        /\ ret[p].op = "getMapFromIDs" /\ ret[p].status = "ok"
        /\ rarg[p].ids = {1, Len(SeedCatalog) + 1}
        /\ DOMAIN got[p] = {1}
        /\ got[p][1] = SeedRenamed[1]
        /\ visible[rarg[p].index][1] # got[p][1]

\* C13: every document search returns is an employee or a class of the
\* requested term, and the total counts every matching employee and every
\* matching class of the term: no class of another term is returned and no
\* matching employee is left out because of the term.
C13_TermEligibility ==
    [][\A p \in Procs :
          SearchReturns(p) =>
              LET docs == Searchable(p)
                  tokens == AnalyzeQuery(Vocabulary(docs), rarg[p].query)
                  hits == searchOutput'[p].searchContent
              IN /\ \A k \in DOMAIN hits :
                        \/ IsEmployee(hits[k])
                        \/ IsClass(hits[k]) /\ hits[k].class.termId = rarg[p].termId
                 /\ searchOutput'[p].resultCount =
                        Cardinality({i \in DOMAIN docs :
                            /\ Score(docs[i], tokens) > 0
                            /\ \/ IsEmployee(docs[i])
                               \/ /\ IsClass(docs[i])
                                  /\ docs[i].class.termId = rarg[p].termId})]_vars

\* C13 witness: a search in the second term for a name that an employee
\* and a class of the first term share returned the employee alone.
C13_Witness ==
    \E p \in Procs :
        /\ SearchDone(p)
        /\ rarg[p].query = NameAda /\ rarg[p].termId = "202030"
        /\ Searchable(p) = SeedCatalog
        /\ Len(searchOutput[p].searchContent) = 1
        /\ IsEmployee(searchOutput[p].searchContent[1])

\* C14: the documents search returns are in the order of non-increasing
\* score, and two classes of equal score in the order of their class
\* identifiers read as numbers.
C14_NumericTieBreak ==
    \A p \in Procs :
        SearchDone(p) =>
            LET hits == searchOutput[p].searchContent
            IN \A k \in 1..(Len(hits) - 1) :
                  /\ hits[k].score >= hits[k + 1].score
                  /\ (/\ hits[k].score = hits[k + 1].score
                      /\ IsClass(hits[k]) /\ IsClass(hits[k + 1]))
                     => ToNumber(hits[k].class.classId)
                            <= ToNumber(hits[k + 1].class.classId)

\* C15: search(query, termId, offset, limit) returns the hits of the ranks
\* offset + 1 .. offset + limit, as many of them as there are.
C15_OffsetLimitWindow ==
    [][\A p \in Procs :
          SearchReturns(p) =>
              searchOutput'[p].searchContent =
                  SearchResponse(Searchable(p), rarg[p].query, rarg[p].termId,
                                 rarg[p].min, rarg[p].max).searchContent]_vars

\* C16: a search for the empty string returns no document and a total of
\* zero, whatever the term, the window and the index.
C16_EmptyQueryNoResults ==
    \A p \in Procs :
        (SearchDone(p) /\ rarg[p].query = <<>>) =>
            /\ searchOutput[p].searchContent = <<>>
            /\ searchOutput[p].resultCount = 0

\* C16 witness: a search for the empty string over the catalog, asking for
\* the first ranks, has returned.
C16_Witness ==
    \E p \in Procs :
        /\ SearchDone(p)
        /\ rarg[p].query = <<>>
        /\ rarg[p].min = 0 /\ rarg[p].max = MaxRank
        /\ Searchable(p) = SeedCatalog

\* The four spellings of a course code, and the class key of the first hit.
Spellings(subject, classId) ==
    {LowerCase(subject) \o classId, LowerCase(subject) \o <<" ">> \o classId,
     UpperCase(subject) \o classId, UpperCase(subject) \o <<" ">> \o classId}
TopKey(output) ==
    IF output.searchContent # <<>> /\ IsClass(output.searchContent[1])
    THEN [kind |-> "class",
          termId |-> output.searchContent[1].class.termId,
          subject |-> UpperCase(output.searchContent[1].class.subject),
          classId |-> output.searchContent[1].class.classId]
    ELSE [kind |-> IF output.searchContent = <<>> THEN "none" ELSE "employee",
          termId |-> "", subject |-> <<>>, classId |-> <<>>]

C18_SuggestionFallback ==
    [][\A p \in Procs :
          (/\ SearchReturns(p)
           /\ rarg[p].query # <<>>
           /\ SearchResponse(Searchable(p), rarg[p].query, rarg[p].termId,
                             rarg[p].min, rarg[p].max - rarg[p].min).resultCount = 0
           /\ PhraseSuggest(Searchable(p), rarg[p].query) # {})
          => searchOutput'[p] =
                SearchResponse(Searchable(p),
                               TopSuggestion(PhraseSuggest(Searchable(p), rarg[p].query)),
                               rarg[p].termId, rarg[p].min,
                               rarg[p].max - rarg[p].min)]_vars

====
